---- MODULE Spec2Model ----
(***************************************************************************)
(* State-machine model of the medical appointment API (src/app.py).        *)
(*                                                                         *)
(* The three module-level collections are the state.  Every handler is an  *)
(* "async def" without any await, so on the event loop a request runs from *)
(* its first to its last statement with no other handler in between: one   *)
(* action per route.  Each handler is an operator from the collections and *)
(* the request parameters to what the handler does: the answer (status and *)
(* body) and the collections it leaves; the route's action applies it.     *)
(*                                                                         *)
(* A Python dict is the sequence of its [key, value] entries in iteration  *)
(* (insertion) order.  HTTPException(status_code=s) is answered with       *)
(* status s; an exception that nothing catches (KeyError) is answered by   *)
(* the framework with status 500.  The read-only GET routes change nothing *)
(* and are left out; requests are taken to be well-formed.                 *)
(***************************************************************************)
EXTENDS Integers, Sequences, FiniteSets, TLC

VARIABLES
    patients_db,           \* dict: patient id -> patient record
    doctors_db,            \* dict: doctor id -> doctor record
    appointments_db,       \* list of appointment records
    returned_patient_ids,  \* history: the ids create_patient has returned
    returned_doctor_ids,   \* history: the ids create_doctor has returned
    loop                   \* the event loop: the requests it holds as
                           \* coroutines, and the one it is running

vars == <<patients_db, doctors_db, appointments_db,
          returned_patient_ids, returned_doctor_ids, loop>>

\* the collections, as the handlers see them
db == [patients_db |-> patients_db, doctors_db |-> doctors_db,
       appointments_db |-> appointments_db]

----------------------------------------------------------------------------
(* Bounds of the model: the sizes up to which the collections grow *)

MaxPatients == 1
MaxDoctors == 2
MaxAppointments == 2

PatientIds == 1..MaxPatients
DoctorIds == 1..MaxDoctors
AppointmentIds == 1..MaxAppointments

----------------------------------------------------------------------------
(* Request bodies and parameters *)

\* Optional[bool]: True, False or None
OptionalBool == {"True", "False", "None"}

\* the truth value of an Optional[bool], as "if x" takes it
Truthy(x) == x = "True"

\* Patient(...).dict()
Patient ==
    { [name |-> "Ada", age |-> 30, sex |-> "F", weight |-> 60, height |-> 170, phone |-> "111"],
      [name |-> "Bob", age |-> 41, sex |-> "M", weight |-> 80, height |-> 180, phone |-> "222"] }

\* Doctor(...).dict(): is_available may be left out (True) or be null (None)
Doctor ==
    { [name |-> "Grey", specialization |-> "surgery", phone |-> "333", is_available |-> a] :
        a \in OptionalBool }

\* the instants datetime.now() returns; no handler reads a stored date
Dates == {"2024-05-01T09:00:00"}

----------------------------------------------------------------------------
(* Python dict, as the sequence of its entries in insertion order *)

DictKeys(d) == { d[i].key : i \in 1..Len(d) }

DictIndex(d, k) == CHOOSE i \in 1..Len(d) : d[i].key = k

\* d[k] for a key that is present
DictGet(d, k) == d[DictIndex(d, k)].value

\* d[k] = v : a present key keeps its position, a new key goes last
DictSet(d, k, v) ==
    IF k \in DictKeys(d)
    THEN [d EXCEPT ![DictIndex(d, k)].value = v]
    ELSE Append(d, [key |-> k, value |-> v])

\* del d[k] for a key that is present
DictDel(d, k) ==
    LET i == DictIndex(d, k)
    IN  SubSeq(d, 1, i - 1) \o SubSeq(d, i + 1, Len(d))

\* old.update(new) on two records
RecordUpdate(old, new) ==
    [f \in DOMAIN old \cup DOMAIN new |-> IF f \in DOMAIN new THEN new[f] ELSE old[f]]

----------------------------------------------------------------------------
(* What a handler does *)

Result(status, body, p, d, a) ==
    [status |-> status, body |-> body,
     patients_db |-> p, doctors_db |-> d, appointments_db |-> a]

\* the handler returns body: status 200
Ok(body, p, d, a) == Result(200, body, p, d, a)

\* raise HTTPException(status_code, detail), raised before any mutation
HTTPException(s, status_code, detail) ==
    Result(status_code, [detail |-> detail],
           s.patients_db, s.doctors_db, s.appointments_db)

\* a KeyError that nothing catches, raised before any mutation: status 500
KeyError(s) ==
    Result(500, [error |-> "KeyError"],
           s.patients_db, s.doctors_db, s.appointments_db)

\* the collections become what the handler left; the handler ran from its
\* first to its last statement, so the loop holds what it held
Apply(r) ==
    /\ patients_db' = r.patients_db
    /\ doctors_db' = r.doctors_db
    /\ appointments_db' = r.appointments_db
    /\ UNCHANGED loop

----------------------------------------------------------------------------
(* Patients *)

create_patient(s, patient) ==
    LET patient_id == Len(s.patients_db) + 1
    IN  Ok([message |-> "Patient created successfully", patient_id |-> patient_id],
           DictSet(s.patients_db, patient_id, patient), s.doctors_db, s.appointments_db)

update_patient(s, patient_id, patient) ==
    IF patient_id \notin DictKeys(s.patients_db)
    THEN KeyError(s)
    ELSE Ok([message |-> "Patient updated successfully"],
            DictSet(s.patients_db, patient_id,
                    RecordUpdate(DictGet(s.patients_db, patient_id), patient)),
            s.doctors_db, s.appointments_db)

delete_patient(s, patient_id) ==
    IF patient_id \notin DictKeys(s.patients_db)
    THEN KeyError(s)
    ELSE Ok([message |-> "Patient deleted successfully"],
            DictDel(s.patients_db, patient_id), s.doctors_db, s.appointments_db)

----------------------------------------------------------------------------
(* Doctors *)

create_doctor(s, doctor) ==
    LET doctor_id == Len(s.doctors_db) + 1
    IN  Ok([message |-> "Doctor created successfully", doctor_id |-> doctor_id],
           s.patients_db, DictSet(s.doctors_db, doctor_id, doctor), s.appointments_db)

update_doctor(s, doctor_id, doctor) ==
    IF doctor_id \notin DictKeys(s.doctors_db)
    THEN KeyError(s)
    ELSE Ok([message |-> "Doctor updated successfully"], s.patients_db,
            DictSet(s.doctors_db, doctor_id,
                    RecordUpdate(DictGet(s.doctors_db, doctor_id), doctor)),
            s.appointments_db)

delete_doctor(s, doctor_id) ==
    IF doctor_id \notin DictKeys(s.doctors_db)
    THEN KeyError(s)
    ELSE Ok([message |-> "Doctor deleted successfully"], s.patients_db,
            DictDel(s.doctors_db, doctor_id), s.appointments_db)

\* SetIsAvailable with a fault: doctors_db[doctor_id] = {"is_available": value},
\* the doctor's other fields are lost
SetIsAvailable_replace(d, doctor_id, value) ==
    DictSet(d, doctor_id, [is_available |-> value])

\* doctors_db[doctor_id]["is_available"] = value, for a key that is present
SetIsAvailable(d, doctor_id, value) ==
    DictSet(d, doctor_id, [DictGet(d, doctor_id) EXCEPT !.is_available = value])

\* set_doctor_availability with a fault: the flag is written on every doctor
\* of the store
set_doctor_availability_all(s, doctor_id, is_available) ==
    IF doctor_id \notin DictKeys(s.doctors_db)
    THEN KeyError(s)
    ELSE Ok([message |-> "Doctor availability status updated successfully"], s.patients_db,
            [i \in 1..Len(s.doctors_db) |->
                [s.doctors_db[i] EXCEPT !.value.is_available = is_available]],
            s.appointments_db)

\* is_available: bool
set_doctor_availability(s, doctor_id, is_available) ==
    IF doctor_id \notin DictKeys(s.doctors_db)
    THEN KeyError(s)
    ELSE Ok([message |-> "Doctor availability status updated successfully"], s.patients_db,
            SetIsAvailable(s.doctors_db, doctor_id, is_available), s.appointments_db)

----------------------------------------------------------------------------
(* Appointments *)

\* available_doctors with a fault: list(doctors_db), the filter on
\* is_available is forgotten
available_doctors_unfiltered(d) == [i \in 1..Len(d) |-> d[i].key]

\* [doc_id for doc_id, doc in doctors_db.items() if doc["is_available"]]
available_doctors(d) ==
    SelectSeq([i \in 1..Len(d) |-> d[i].key],
              LAMBDA doc_id : Truthy(DictGet(d, doc_id).is_available))

\* Appointment with a fault: the model carries an id field
Appointment_with_id(patient_id, doctor_id, date) ==
    [id |-> 1, patient_id |-> patient_id, doctor_id |-> doctor_id, date |-> date]

\* Appointment(patient_id=..., doctor_id=..., date=...).dict()
Appointment(patient_id, doctor_id, date) ==
    [patient_id |-> patient_id, doctor_id |-> doctor_id, date |-> date]

\* create_appointment with a fault: the doctor's flag is left as it was
create_appointment_no_flag(s, patient_id, now) ==
    IF available_doctors(s.doctors_db) = <<>>
    THEN HTTPException(s, 400, "No available doctors at the moment")
    ELSE LET doctor_id == available_doctors(s.doctors_db)[1]
             appointment == Appointment(patient_id, doctor_id, now)
         IN  Ok([message |-> "Appointment created successfully"], s.patients_db,
                s.doctors_db, Append(s.appointments_db, appointment))

\* create_appointment with a fault: available_doctors[-1], the last available
\* doctor is taken
create_appointment_last(s, patient_id, now) ==
    IF available_doctors(s.doctors_db) = <<>>
    THEN HTTPException(s, 400, "No available doctors at the moment")
    ELSE LET doctor_id == available_doctors(s.doctors_db)[Len(available_doctors(s.doctors_db))]
             appointment == Appointment(patient_id, doctor_id, now)
         IN  Ok([message |-> "Appointment created successfully"], s.patients_db,
                SetIsAvailable(s.doctors_db, doctor_id, "False"),
                Append(s.appointments_db, appointment))

\* now: what datetime.now() returns during the call
create_appointment(s, patient_id, now) ==
    IF available_doctors(s.doctors_db) = <<>>
    THEN HTTPException(s, 400, "No available doctors at the moment")
    ELSE LET doctor_id == available_doctors(s.doctors_db)[1]
             appointment == Appointment(patient_id, doctor_id, now)
         IN  Ok([message |-> "Appointment created successfully"], s.patients_db,
                SetIsAvailable(s.doctors_db, doctor_id, "False"),
                Append(s.appointments_db, appointment))

\* next((app for app in appointments_db if app["id"] == appointment_id), None):
\* the scan stops at the first appointment that has no "id" key (KeyError) or
\* whose id is the wanted one; None when it reaches the end.
find_appointment(appts, appointment_id) ==
    LET raising == { i \in 1..Len(appts) : "id" \notin DOMAIN appts[i] }
        matching == { i \in 1..Len(appts) :
                        /\ "id" \in DOMAIN appts[i]
                        /\ appts[i].id = appointment_id }
        stops == raising \cup matching
        first == CHOOSE i \in stops : \A j \in stops : i <= j
    IN  IF stops = {} THEN [found |-> "None"]
        ELSE IF first \in raising THEN [found |-> "KeyError"]
        ELSE [found |-> "appointment", index |-> first]

\* appointments_db.remove(appointment): drops the first equal element
ListRemove(appts, appointment) ==
    LET i == CHOOSE i \in 1..Len(appts) :
                 /\ appts[i] = appointment
                 /\ \A j \in 1..(i - 1) : appts[j] # appointment
    IN  SubSeq(appts, 1, i - 1) \o SubSeq(appts, i + 1, Len(appts))

complete_appointment(s, appointment_id) ==
    LET look == find_appointment(s.appointments_db, appointment_id)
    IN  IF look.found = "KeyError" THEN KeyError(s)
        ELSE IF look.found = "None" THEN HTTPException(s, 404, "Appointment not found")
        ELSE LET appointment == s.appointments_db[look.index]
                 doctor_id == appointment.doctor_id
             IN  IF doctor_id \notin DictKeys(s.doctors_db) THEN KeyError(s)
                 ELSE Ok([message |-> "Appointment completed successfully"], s.patients_db,
                         SetIsAvailable(s.doctors_db, doctor_id, "True"),
                         ListRemove(s.appointments_db, appointment))

\* cancel_appointment with a fault: app.get("id") == appointment_id, an
\* appointment without an id is skipped instead of raising
cancel_appointment_get(s, appointment_id) ==
    LET matching == { i \in 1..Len(s.appointments_db) :
                        /\ "id" \in DOMAIN s.appointments_db[i]
                        /\ s.appointments_db[i].id = appointment_id }
    IN  IF matching = {} THEN HTTPException(s, 404, "Appointment not found")
        ELSE LET appointment ==
                     s.appointments_db[CHOOSE i \in matching : \A j \in matching : i <= j]
                 doctor_id == appointment.doctor_id
             IN  IF doctor_id \notin DictKeys(s.doctors_db) THEN KeyError(s)
                 ELSE Ok([message |-> "Appointment canceled successfully"], s.patients_db,
                         SetIsAvailable(s.doctors_db, doctor_id, "True"),
                         ListRemove(s.appointments_db, appointment))

cancel_appointment(s, appointment_id) ==
    LET look == find_appointment(s.appointments_db, appointment_id)
    IN  IF look.found = "KeyError" THEN KeyError(s)
        ELSE IF look.found = "None" THEN HTTPException(s, 404, "Appointment not found")
        ELSE LET appointment == s.appointments_db[look.index]
                 doctor_id == appointment.doctor_id
             IN  IF doctor_id \notin DictKeys(s.doctors_db) THEN KeyError(s)
                 ELSE Ok([message |-> "Appointment canceled successfully"], s.patients_db,
                         SetIsAvailable(s.doctors_db, doctor_id, "True"),
                         ListRemove(s.appointments_db, appointment))

----------------------------------------------------------------------------
(* The routes *)

POST_patients(patient) ==
    /\ Len(patients_db) < MaxPatients
    /\ Apply(create_patient(db, patient))
    /\ returned_patient_ids' =
           returned_patient_ids \cup {create_patient(db, patient).body.patient_id}
    /\ UNCHANGED returned_doctor_ids

PUT_patients_id(patient_id, patient) ==
    /\ Apply(update_patient(db, patient_id, patient))
    /\ UNCHANGED <<returned_patient_ids, returned_doctor_ids>>

DELETE_patients_id(patient_id) ==
    /\ Apply(delete_patient(db, patient_id))
    /\ UNCHANGED <<returned_patient_ids, returned_doctor_ids>>

POST_doctors(doctor) ==
    /\ Len(doctors_db) < MaxDoctors
    /\ Apply(create_doctor(db, doctor))
    /\ returned_doctor_ids' =
           returned_doctor_ids \cup {create_doctor(db, doctor).body.doctor_id}
    /\ UNCHANGED returned_patient_ids

PUT_doctors_id(doctor_id, doctor) ==
    /\ Apply(update_doctor(db, doctor_id, doctor))
    /\ UNCHANGED <<returned_patient_ids, returned_doctor_ids>>

DELETE_doctors_id(doctor_id) ==
    /\ Apply(delete_doctor(db, doctor_id))
    /\ UNCHANGED <<returned_patient_ids, returned_doctor_ids>>

PUT_doctors_id_availability(doctor_id, is_available) ==
    /\ Apply(set_doctor_availability(db, doctor_id, is_available))
    /\ UNCHANGED <<returned_patient_ids, returned_doctor_ids>>

POST_appointments(patient_id, now) ==
    /\ Len(appointments_db) < MaxAppointments
    /\ Apply(create_appointment(db, patient_id, now))
    /\ UNCHANGED <<returned_patient_ids, returned_doctor_ids>>

PUT_appointments_id_complete(appointment_id) ==
    /\ Apply(complete_appointment(db, appointment_id))
    /\ UNCHANGED <<returned_patient_ids, returned_doctor_ids>>

DELETE_appointments_id(appointment_id) ==
    /\ Apply(cancel_appointment(db, appointment_id))
    /\ UNCHANGED <<returned_patient_ids, returned_doctor_ids>>

----------------------------------------------------------------------------

Init ==
    /\ patients_db = <<>>
    /\ doctors_db = <<>>
    /\ appointments_db = <<>>
    /\ returned_patient_ids = {}
    /\ returned_doctor_ids = {}
    /\ loop = [tasks |-> <<>>, running |-> 0]

Next ==
    \/ \E patient \in Patient : POST_patients(patient)
    \/ \E patient_id \in PatientIds, patient \in Patient : PUT_patients_id(patient_id, patient)
    \/ \E patient_id \in PatientIds : DELETE_patients_id(patient_id)
    \/ \E doctor \in Doctor : POST_doctors(doctor)
    \/ \E doctor_id \in DoctorIds, doctor \in Doctor : PUT_doctors_id(doctor_id, doctor)
    \/ \E doctor_id \in DoctorIds : DELETE_doctors_id(doctor_id)
    \/ \E doctor_id \in DoctorIds, is_available \in {"True", "False"} :
          PUT_doctors_id_availability(doctor_id, is_available)
    \/ \E patient_id \in PatientIds, now \in Dates : POST_appointments(patient_id, now)
    \/ \E appointment_id \in AppointmentIds : PUT_appointments_id_complete(appointment_id)
    \/ \E appointment_id \in AppointmentIds : DELETE_appointments_id(appointment_id)

Spec == Init /\ [][Next]_vars

----------------------------------------------------------------------------
(* Requests to create_appointment alone, from a state the CRUD routes can   *)
(* leave in which no appointment is active and every doctor is available.   *)

\* a whole state, as a record
State(p, d, a, rp, rd) ==
    [patients_db |-> p, doctors_db |-> d, appointments_db |-> a,
     returned_patient_ids |-> rp, returned_doctor_ids |-> rd]

AllAvailable(d) == \A i \in 1..Len(d) : d[i].value.is_available = "True"

\* the states one patient or doctor CRUD request leads to from st, the
\* doctors' bodies being those that are available
CrudSuccessors(st) ==
    LET ap(r, rp, rd) == State(r.patients_db, r.doctors_db, r.appointments_db, rp, rd)
        same(r) == ap(r, st.returned_patient_ids, st.returned_doctor_ids)
        doctors == { doctor \in Doctor : doctor.is_available = "True" }
    IN  { ap(create_patient(st, patient),
             st.returned_patient_ids \cup {create_patient(st, patient).body.patient_id},
             st.returned_doctor_ids) :
            patient \in { x \in Patient : Len(st.patients_db) < MaxPatients } }
        \cup { same(update_patient(st, patient_id, patient)) :
                 patient_id \in PatientIds, patient \in Patient }
        \cup { same(delete_patient(st, patient_id)) : patient_id \in PatientIds }
        \cup { ap(create_doctor(st, doctor),
                  st.returned_patient_ids,
                  st.returned_doctor_ids \cup {create_doctor(st, doctor).body.doctor_id}) :
                 doctor \in { x \in doctors : Len(st.doctors_db) < MaxDoctors } }
        \cup { same(update_doctor(st, doctor_id, doctor)) :
                 doctor_id \in DoctorIds, doctor \in doctors }
        \cup { same(delete_doctor(st, doctor_id)) : doctor_id \in DoctorIds }

RECURSIVE CrudReachable(_)
CrudReachable(S) ==
    LET T == S \cup UNION { CrudSuccessors(st) : st \in S }
    IN  IF T = S THEN S ELSE CrudReachable(T)

\* the patient ids the requests carry: ids of the store and ids beside it
RequestPatientIds == 0..(MaxPatients + 1)

InitCreateOnly ==
    \E st \in CrudReachable({State(<<>>, <<>>, <<>>, {}, {})}) :
        /\ AllAvailable(st.doctors_db)
        /\ patients_db = st.patients_db
        /\ doctors_db = st.doctors_db
        /\ appointments_db = st.appointments_db
        /\ returned_patient_ids = st.returned_patient_ids
        /\ returned_doctor_ids = st.returned_doctor_ids
        /\ loop = [tasks |-> <<>>, running |-> 0]

NextCreateOnly ==
    \E patient_id \in RequestPatientIds, now \in Dates : POST_appointments(patient_id, now)

SpecCreateOnly == InitCreateOnly /\ [][NextCreateOnly]_vars

----------------------------------------------------------------------------
(* Properties *)

\* the positions of the appointments that reference doctor_id
AppointmentsOf(appts, doctor_id) ==
    { i \in 1..Len(appts) : appts[i].doctor_id = doctor_id }

\* no doctor of the store has is_available == true
NoDoctorAvailable(d) == \A i \in 1..Len(d) : d[i].value.is_available # "True"

\* the handler left the three collections as they were
Untouched(r) ==
    /\ r.patients_db = patients_db
    /\ r.doctors_db = doctors_db
    /\ r.appointments_db = appointments_db

\* appointment_id is the id of no appointment of the list
MatchesNone(appts, appointment_id) ==
    \A i \in 1..Len(appts) :
        ~ ("id" \in DOMAIN appts[i] /\ appts[i].id = appointment_id)

(* C1: in every reachable state, a doctor's is_available is false if and   *)
(* only if exactly one active appointment references the doctor's id.       *)
C1_UnavailableIffOneAppointment ==
    \A i \in 1..Len(doctors_db) :
        (doctors_db[i].value.is_available = "False")
            <=> (Cardinality(AppointmentsOf(appointments_db, doctors_db[i].key)) = 1)

(* C2: from a state with no active appointment and every doctor available, *)
(* after any sequence of create_appointment calls the number of doctors    *)
(* whose is_available is false equals the number of active appointments.    *)
C2_UnavailableCountIsAppointmentCount ==
    Cardinality({ i \in 1..Len(doctors_db) : doctors_db[i].value.is_available = "False" })
        = Len(appointments_db)

\* two calls have succeeded and a third finds no doctor left
C2_Witness ==
    /\ Len(appointments_db) >= 2
    /\ NoDoctorAvailable(doctors_db)
    /\ \A i \in 1..Len(doctors_db) :
           Cardinality(AppointmentsOf(appointments_db, doctors_db[i].key)) = 1

(* C3: when no doctor has is_available == true (the store may be empty),   *)
(* create_appointment fails with 400 "No available doctors at the moment"  *)
(* and leaves the appointments, the doctors and the patients as they were.  *)
C3_NoAvailableDoctorIs400 ==
    NoDoctorAvailable(doctors_db) =>
        \A patient_id \in RequestPatientIds, now \in Dates :
            LET r == create_appointment(db, patient_id, now)
            IN  /\ r.status = 400
                /\ r.body = [detail |-> "No available doctors at the moment"]
                /\ Untouched(r)

\* the only doctor is taken by an appointment and the next call is refused
C3_Witness ==
    /\ doctors_db # <<>>
    /\ appointments_db # <<>>
    /\ NoDoctorAvailable(doctors_db)
    /\ \E patient_id \in RequestPatientIds, now \in Dates :
           create_appointment(db, patient_id, now).status = 400

(* C4: a create_appointment that succeeds assigns the first doctor, in the *)
(* store's order, whose is_available was true before the call: no doctor   *)
(* before it in the store is available.                                     *)
C4_FirstAvailableInStoreOrder ==
    \A patient_id \in RequestPatientIds, now \in Dates :
        LET r == create_appointment(db, patient_id, now)
        IN  r.status = 200 =>
                LET chosen == r.appointments_db[Len(r.appointments_db)].doctor_id
                IN  \E i \in 1..Len(doctors_db) :
                        /\ doctors_db[i].key = chosen
                        /\ doctors_db[i].value.is_available = "True"
                        /\ \A j \in 1..(i - 1) : doctors_db[j].value.is_available # "True"

\* the first doctor of the store is not available, a later one is, and the
\* call takes the later one
C4_Witness ==
    /\ Len(doctors_db) >= 2
    /\ doctors_db[1].value.is_available # "True"
    /\ \E patient_id \in RequestPatientIds, now \in Dates :
           LET r == create_appointment(db, patient_id, now)
           IN  /\ r.status = 200
               /\ r.appointments_db[Len(r.appointments_db)].doctor_id = doctors_db[2].key

(* C5: a create_appointment that succeeds appends one appointment, with    *)
(* the given patient_id and the chosen doctor's id, and sets the chosen    *)
(* doctor's is_available to false; the earlier appointments, the other     *)
(* doctors, the chosen doctor's other fields and the patients are as they  *)
(* were.                                                                    *)
C5_CreateAppointmentFrame ==
    \A patient_id \in RequestPatientIds, now \in Dates :
        LET r == create_appointment(db, patient_id, now)
            n == Len(appointments_db)
        IN  r.status = 200 =>
                /\ Len(r.appointments_db) = n + 1
                /\ SubSeq(r.appointments_db, 1, n) = appointments_db
                /\ r.appointments_db[n + 1].patient_id = patient_id
                /\ r.appointments_db[n + 1].doctor_id \in DictKeys(doctors_db)
                /\ Len(r.doctors_db) = Len(doctors_db)
                /\ \A i \in 1..Len(doctors_db) :
                       /\ r.doctors_db[i].key = doctors_db[i].key
                       /\ r.doctors_db[i].value =
                              IF doctors_db[i].key = r.appointments_db[n + 1].doctor_id
                              THEN [doctors_db[i].value EXCEPT !.is_available = "False"]
                              ELSE doctors_db[i].value
                /\ r.patients_db = patients_db

\* one appointment is active, its doctor is unavailable, and a call
\* succeeds beside it
C5_Witness ==
    /\ appointments_db # <<>>
    /\ patients_db # <<>>
    /\ Len(doctors_db) >= 2
    /\ \E i \in 1..Len(doctors_db) :
           /\ doctors_db[i].key = appointments_db[Len(appointments_db)].doctor_id
           /\ doctors_db[i].value.is_available = "False"
    /\ \E patient_id \in RequestPatientIds, now \in Dates :
           create_appointment(db, patient_id, now).status = 200

(* C6: for every active appointment there is an appointment id with which  *)
(* complete_appointment succeeds: the call sets the referenced doctor's    *)
(* is_available to true and removes that appointment and no other.          *)
C6_EveryAppointmentCanBeCompleted ==
    \A i \in 1..Len(appointments_db) :
        \E appointment_id \in AppointmentIds :
            LET r == complete_appointment(db, appointment_id)
            IN  /\ r.status = 200
                /\ r.appointments_db =
                       SubSeq(appointments_db, 1, i - 1)
                           \o SubSeq(appointments_db, i + 1, Len(appointments_db))
                /\ \E k \in 1..Len(r.doctors_db) :
                       /\ r.doctors_db[k].key = appointments_db[i].doctor_id
                       /\ r.doctors_db[k].value.is_available = "True"

(* C7: complete_appointment and cancel_appointment with an id that is the  *)
(* id of no active appointment, the collection being empty or not, fail    *)
(* with 404 "Appointment not found" and change nothing.                     *)
C7_UnknownAppointmentIs404 ==
    \A appointment_id \in AppointmentIds :
        MatchesNone(appointments_db, appointment_id) =>
            /\ complete_appointment(db, appointment_id).status = 404
            /\ complete_appointment(db, appointment_id).body = [detail |-> "Appointment not found"]
            /\ Untouched(complete_appointment(db, appointment_id))
            /\ cancel_appointment(db, appointment_id).status = 404
            /\ cancel_appointment(db, appointment_id).body = [detail |-> "Appointment not found"]
            /\ Untouched(cancel_appointment(db, appointment_id))

(* C8: in every reachable state and for every appointment id,              *)
(* cancel_appointment and complete_appointment succeed or fail alike, fail *)
(* the same way, and leave the same doctors, patients and appointments;    *)
(* only the message of a success differs.                                   *)
C8_CancelIsComplete ==
    \A appointment_id \in AppointmentIds :
        LET c == complete_appointment(db, appointment_id)
            x == cancel_appointment(db, appointment_id)
        IN  /\ x.status = c.status
            /\ (c.status # 200 => x.body = c.body)
            /\ x.patients_db = c.patients_db
            /\ x.doctors_db = c.doctors_db
            /\ x.appointments_db = c.appointments_db

\* an appointment is active, its doctor is in the store, and both calls
\* have the same outcome on it
C8_Witness ==
    /\ appointments_db # <<>>
    /\ appointments_db[1].doctor_id \in DictKeys(doctors_db)
    /\ \E appointment_id \in AppointmentIds :
           /\ cancel_appointment(db, appointment_id).status
                  = complete_appointment(db, appointment_id).status
           /\ cancel_appointment(db, appointment_id).body
                  = complete_appointment(db, appointment_id).body
           /\ Untouched(cancel_appointment(db, appointment_id))

(* C9: update_patient, delete_patient, update_doctor, delete_doctor and    *)
(* set_doctor_availability with an id that is not in the store fail with   *)
(* NotFound (404), not with a success and not with an unhandled fault, and *)
(* change nothing.                                                          *)
C9_AbsentIdIs404 ==
    /\ \A patient_id \in PatientIds \ DictKeys(patients_db) :
           /\ \A patient \in Patient :
                  /\ update_patient(db, patient_id, patient).status = 404
                  /\ Untouched(update_patient(db, patient_id, patient))
           /\ delete_patient(db, patient_id).status = 404
           /\ Untouched(delete_patient(db, patient_id))
    /\ \A doctor_id \in DoctorIds \ DictKeys(doctors_db) :
           /\ \A doctor \in Doctor :
                  /\ update_doctor(db, doctor_id, doctor).status = 404
                  /\ Untouched(update_doctor(db, doctor_id, doctor))
           /\ delete_doctor(db, doctor_id).status = 404
           /\ Untouched(delete_doctor(db, doctor_id))
           /\ \A is_available \in {"True", "False"} :
                  /\ set_doctor_availability(db, doctor_id, is_available).status = 404
                  /\ Untouched(set_doctor_availability(db, doctor_id, is_available))

(* C10: the id a create_patient (create_doctor) call returns was returned  *)
(* by no earlier create_patient (create_doctor) call, whatever creates and *)
(* deletes came before; so the call overwrites no record of the store and  *)
(* the store grows by one.                                                  *)
C10_CreatedIdsAreFresh ==
    [][ /\ \A patient \in Patient :
               POST_patients(patient) =>
                   /\ create_patient(db, patient).body.patient_id \notin returned_patient_ids
                   /\ create_patient(db, patient).body.patient_id \notin DictKeys(patients_db)
                   /\ Len(patients_db') = Len(patients_db) + 1
        /\ \A doctor \in Doctor :
               POST_doctors(doctor) =>
                   /\ create_doctor(db, doctor).body.doctor_id \notin returned_doctor_ids
                   /\ create_doctor(db, doctor).body.doctor_id \notin DictKeys(doctors_db)
                   /\ Len(doctors_db') = Len(doctors_db) + 1 ]_vars


\* the collections a handler left, as the next handler sees them
After(r) == [patients_db |-> r.patients_db, doctors_db |-> r.doctors_db,
             appointments_db |-> r.appointments_db]

(* C11: set_doctor_availability(doctor_id, b) on a doctor of the store      *)
(* writes that doctor's is_available to b and nothing else: the other      *)
(* doctors, the doctor's other fields, the patients and the appointments   *)
(* are as they were; a second call with the same arguments leaves the      *)
(* state the first call left.                                               *)
C11_SetAvailabilityWritesOneField ==
    \A doctor_id \in DictKeys(doctors_db), b \in {"True", "False"} :
        LET r == set_doctor_availability(db, doctor_id, b)
            again == set_doctor_availability(After(r), doctor_id, b)
        IN  /\ r.status = 200
            /\ r.patients_db = patients_db
            /\ r.appointments_db = appointments_db
            /\ Len(r.doctors_db) = Len(doctors_db)
            /\ \A i \in 1..Len(doctors_db) :
                   /\ r.doctors_db[i].key = doctors_db[i].key
                   /\ r.doctors_db[i].value =
                          IF doctors_db[i].key = doctor_id
                          THEN [doctors_db[i].value EXCEPT !.is_available = b]
                          ELSE doctors_db[i].value
            /\ again.status = 200
            /\ After(again) = After(r)

\* two doctors with different flags, an active appointment, and a call that
\* changes one doctor's flag
C11_Witness ==
    /\ Len(doctors_db) >= 2
    /\ doctors_db[1].value.is_available # doctors_db[2].value.is_available
    /\ appointments_db # <<>>
    /\ patients_db # <<>>
    /\ \E doctor_id \in DictKeys(doctors_db), b \in {"True", "False"} :
           /\ set_doctor_availability(db, doctor_id, b).status = 200
           /\ set_doctor_availability(db, doctor_id, b).doctors_db # doctors_db


\* the positions of the appointments whose doctor is no longer in the store
Orphaned(appts, d) == { i \in 1..Len(appts) : appts[i].doctor_id \notin DictKeys(d) }

\* r is a NotFound answer that changed nothing, or a success that left
\* the appointment at position i where it was
NotFoundFor(r, i) ==
    \/ r.status = 404 /\ Untouched(r)
    \/ /\ r.status = 200
       /\ \E k \in 1..Len(r.appointments_db) : r.appointments_db[k] = appointments_db[i]

(* C12: once delete_doctor has removed a doctor that an active appointment *)
(* references, the appointment stays in the collection with the absent     *)
(* doctor id, and complete_appointment and cancel_appointment on it fail   *)
(* with NotFound: no call completes or cancels it and no call ends in an   *)
(* unhandled fault.                                                         *)
C12_OrphanedAppointmentIs404 ==
    \A i \in Orphaned(appointments_db, doctors_db) :
        \A appointment_id \in AppointmentIds :
            /\ NotFoundFor(complete_appointment(db, appointment_id), i)
            /\ NotFoundFor(cancel_appointment(db, appointment_id), i)


(* C13: create_appointment with a patient_id that is no key of the patient *)
(* store fails and creates no appointment, and the failure is NotFound     *)
(* (404) whenever a doctor is available, that is whenever the missing      *)
(* patient is the only thing wrong with the request.                        *)
C13_UnknownPatientIs404 ==
    \A patient_id \in RequestPatientIds \ DictKeys(patients_db), now \in Dates :
        LET r == create_appointment(db, patient_id, now)
        IN  /\ r.status # 200
            /\ Untouched(r)
            /\ (~ NoDoctorAvailable(doctors_db) => r.status = 404)


(* C15: every record that create_appointment stores has exactly the fields *)
(* patient_id, doctor_id and date; no active appointment carries an id, so *)
(* the lookup by id of complete_appointment and cancel_appointment matches *)
(* no appointment.                                                          *)
C15_AppointmentsCarryNoId ==
    /\ \A i \in 1..Len(appointments_db) :
           DOMAIN appointments_db[i] = {"patient_id", "doctor_id", "date"}
    /\ \A appointment_id \in AppointmentIds :
           /\ find_appointment(appointments_db, appointment_id).found # "appointment"
           /\ complete_appointment(db, appointment_id).status # 200
           /\ cancel_appointment(db, appointment_id).status # 200

\* two appointments are active and the lookup ends in a KeyError
C15_Witness ==
    /\ Len(appointments_db) >= 2
    /\ \E appointment_id \in AppointmentIds :
           find_appointment(appointments_db, appointment_id).found = "KeyError"

----------------------------------------------------------------------------
(* The routes that create patients, create doctors with the default        *)
(* availability, and create, complete and cancel appointments: no delete,  *)
(* no update_doctor, no set_doctor_availability.                            *)

\* Doctor(...).dict() of a request that leaves is_available out
DoctorWithDefaultAvailability ==
    { [name |-> "Grey", specialization |-> "surgery", phone |-> "333", is_available |-> "True"],
      [name |-> "House", specialization |-> "diagnostics", phone |-> "444", is_available |-> "True"] }

NextLifecycle ==
    \/ \E patient \in Patient : POST_patients(patient)
    \/ \E doctor \in DoctorWithDefaultAvailability : POST_doctors(doctor)
    \/ \E patient_id \in RequestPatientIds, now \in Dates : POST_appointments(patient_id, now)
    \/ \E appointment_id \in AppointmentIds : PUT_appointments_id_complete(appointment_id)
    \/ \E appointment_id \in AppointmentIds : DELETE_appointments_id(appointment_id)

SpecLifecycle == Init /\ [][NextLifecycle]_vars

(* C16: in every state reachable from the empty state by create_patient,   *)
(* create_doctor with the default availability, create_appointment,        *)
(* complete_appointment and cancel_appointment, no two active appointments *)
(* reference the same doctor and there are no more active appointments     *)
(* than doctors.                                                            *)
C16_OneAppointmentPerDoctor ==
    /\ \A i, j \in 1..Len(appointments_db) :
           i # j => appointments_db[i].doctor_id # appointments_db[j].doctor_id
    /\ Len(appointments_db) <= Len(doctors_db)

\* two appointments are active, on two doctors
C16_Witness ==
    /\ Len(appointments_db) >= 2
    /\ appointments_db[1].doctor_id # appointments_db[2].doctor_id
    /\ NoDoctorAvailable(doctors_db)


----------------------------------------------------------------------------
(* Concurrent requests on the event loop.  uvicorn.run(app) serves the app *)
(* on one event loop; a handler declared "async def" runs on that loop as  *)
(* a coroutine, and the loop takes up another coroutine only when the      *)
(* running one awaits or ends.  Here the handlers of create_appointment,   *)
(* complete_appointment and cancel_appointment run statement by statement. *)

MaxTasks == 2
Tasks == 1..MaxTasks

\* the requests that are issued together
Requests ==
    [op : {"create_appointment"}, arg : PatientIds]
        \cup [op : {"complete_appointment", "cancel_appointment"}, arg : AppointmentIds]

\* a request as a coroutine that has not run yet: its next statement (pc),
\* its locals doctor_id and appointment (0 and "None" while unset) and the
\* status of its answer (0 while it has none)
Coroutine(request) ==
    [op |-> request.op, arg |-> request.arg,
     pc |-> IF request.op = "create_appointment" THEN "select" ELSE "find",
     doctor_id |-> 0, appointment |-> "None", status |-> 0]

\* Awaits with a fault: the handler awaits between the append and the write
\* of the flag
Awaits_before_flag(op, pc) == op = "create_appointment" /\ pc = "flag"

\* whether handler op awaits before its statement pc: none of the three
\* handlers contains an await
Awaits(op, pc) == FALSE

\* what a statement leaves: the coroutine and the two collections
Left(task, d, a) == [task |-> task, doctors_db |-> d, appointments_db |-> a]

\* the coroutine ends with this status
Ends(task, status) == [task EXCEPT !.pc = "done", !.status = status]

\* the statement of create_appointment at task.pc
create_appointment_statement(s, task, now) ==
    CASE task.pc = "select" ->
            IF available_doctors(s.doctors_db) = <<>>
            THEN Left(Ends(task, 400), s.doctors_db, s.appointments_db)
            ELSE LET doctor_id == available_doctors(s.doctors_db)[1]
                 IN  Left([task EXCEPT !.pc = "append", !.doctor_id = doctor_id,
                                       !.appointment = Appointment(task.arg, doctor_id, now)],
                          s.doctors_db, s.appointments_db)
      [] task.pc = "append" ->
            Left([task EXCEPT !.pc = "flag"], s.doctors_db,
                 Append(s.appointments_db, task.appointment))
      [] task.pc = "flag" ->
            IF task.doctor_id \notin DictKeys(s.doctors_db)
            THEN Left(Ends(task, 500), s.doctors_db, s.appointments_db)
            ELSE Left(Ends(task, 200),
                      SetIsAvailable(s.doctors_db, task.doctor_id, "False"),
                      s.appointments_db)

\* the statement of complete_appointment at task.pc
complete_appointment_statement(s, task) ==
    CASE task.pc = "find" ->
            LET look == find_appointment(s.appointments_db, task.arg)
            IN  IF look.found = "KeyError"
                THEN Left(Ends(task, 500), s.doctors_db, s.appointments_db)
                ELSE IF look.found = "None"
                THEN Left(Ends(task, 404), s.doctors_db, s.appointments_db)
                ELSE Left([task EXCEPT !.pc = "restore",
                                       !.appointment = s.appointments_db[look.index],
                                       !.doctor_id = s.appointments_db[look.index].doctor_id],
                          s.doctors_db, s.appointments_db)
      [] task.pc = "restore" ->
            IF task.doctor_id \notin DictKeys(s.doctors_db)
            THEN Left(Ends(task, 500), s.doctors_db, s.appointments_db)
            ELSE Left([task EXCEPT !.pc = "remove"],
                      SetIsAvailable(s.doctors_db, task.doctor_id, "True"),
                      s.appointments_db)
      [] task.pc = "remove" ->
            IF \A i \in 1..Len(s.appointments_db) : s.appointments_db[i] # task.appointment
            THEN Left(Ends(task, 500), s.doctors_db, s.appointments_db)
            ELSE Left(Ends(task, 200), s.doctors_db,
                      ListRemove(s.appointments_db, task.appointment))

\* the statement of cancel_appointment at task.pc
cancel_appointment_statement(s, task) ==
    CASE task.pc = "find" ->
            LET look == find_appointment(s.appointments_db, task.arg)
            IN  IF look.found = "KeyError"
                THEN Left(Ends(task, 500), s.doctors_db, s.appointments_db)
                ELSE IF look.found = "None"
                THEN Left(Ends(task, 404), s.doctors_db, s.appointments_db)
                ELSE Left([task EXCEPT !.pc = "restore",
                                       !.appointment = s.appointments_db[look.index],
                                       !.doctor_id = s.appointments_db[look.index].doctor_id],
                          s.doctors_db, s.appointments_db)
      [] task.pc = "restore" ->
            IF task.doctor_id \notin DictKeys(s.doctors_db)
            THEN Left(Ends(task, 500), s.doctors_db, s.appointments_db)
            ELSE Left([task EXCEPT !.pc = "remove"],
                      SetIsAvailable(s.doctors_db, task.doctor_id, "True"),
                      s.appointments_db)
      [] task.pc = "remove" ->
            IF \A i \in 1..Len(s.appointments_db) : s.appointments_db[i] # task.appointment
            THEN Left(Ends(task, 500), s.doctors_db, s.appointments_db)
            ELSE Left(Ends(task, 200), s.doctors_db,
                      ListRemove(s.appointments_db, task.appointment))

\* the loop runs one statement of coroutine t: it takes t up only when no
\* coroutine is running, and keeps running it until it awaits or ends
RunStatement(t, left) ==
    /\ loop.running \in {0, t}
    /\ loop.tasks[t].pc # "done"
    /\ doctors_db' = left.doctors_db
    /\ appointments_db' = left.appointments_db
    /\ loop' = [tasks |-> [loop.tasks EXCEPT ![t] = left.task],
                running |-> IF left.task.pc = "done" \/ Awaits(left.task.op, left.task.pc)
                            THEN 0 ELSE t]
    /\ UNCHANGED <<patients_db, returned_patient_ids, returned_doctor_ids>>

StepCreateAppointment(t, now) ==
    /\ loop.tasks[t].op = "create_appointment"
    /\ RunStatement(t, create_appointment_statement(db, loop.tasks[t], now))

StepCompleteAppointment(t) ==
    /\ loop.tasks[t].op = "complete_appointment"
    /\ RunStatement(t, complete_appointment_statement(db, loop.tasks[t]))

StepCancelAppointment(t) ==
    /\ loop.tasks[t].op = "cancel_appointment"
    /\ RunStatement(t, cancel_appointment_statement(db, loop.tasks[t]))

\* the doctors are those the CRUD routes can leave, all available; no
\* patient request was made (the three handlers never read the patients);
\* MaxTasks requests are issued, none has run yet
InitEventLoop ==
    \E st \in CrudReachable({State(<<>>, <<>>, <<>>, {}, {})}) :
        /\ AllAvailable(st.doctors_db)
        /\ st.returned_patient_ids = {}
        /\ patients_db = st.patients_db
        /\ doctors_db = st.doctors_db
        /\ appointments_db = st.appointments_db
        /\ returned_patient_ids = st.returned_patient_ids
        /\ returned_doctor_ids = st.returned_doctor_ids
        /\ \E requests \in [Tasks -> Requests] :
               loop = [tasks |-> [t \in Tasks |-> Coroutine(requests[t])], running |-> 0]

NextEventLoop ==
    \/ \E t \in Tasks, now \in Dates : StepCreateAppointment(t, now)
    \/ \E t \in Tasks : StepCompleteAppointment(t)
    \/ \E t \in Tasks : StepCancelAppointment(t)

SpecEventLoop == InitEventLoop /\ [][NextEventLoop]_vars

\* coroutine t is between two statements of its handler
MidHandler(t) == loop.tasks[t].pc \in {"append", "flag", "restore", "remove"}

\* coroutine t is a create_appointment that has selected its doctor
HasSelected(t) ==
    /\ loop.tasks[t].op = "create_appointment"
    /\ loop.tasks[t].doctor_id # 0

(* C14: under any interleaving of concurrent create_appointment,           *)
(* complete_appointment and cancel_appointment requests, a handler that    *)
(* has begun runs to its end before the loop runs another: whenever a      *)
(* coroutine is between two statements it is the one running; whenever the *)
(* loop is free to run another handler, no appointment is in the           *)
(* collection whose doctor is still available; and no two                  *)
(* create_appointment requests have selected the same doctor.               *)
C14_HandlersRunAtomically ==
    /\ \A t \in Tasks : MidHandler(t) => loop.running = t
    /\ loop.running = 0 =>
           \A i \in 1..Len(appointments_db) :
               \A k \in 1..Len(doctors_db) :
                   doctors_db[k].key = appointments_db[i].doctor_id
                       => doctors_db[k].value.is_available # "True"
    /\ \A t1, t2 \in Tasks :
           (t1 # t2 /\ HasSelected(t1) /\ HasSelected(t2))
               => loop.tasks[t1].doctor_id # loop.tasks[t2].doctor_id

\* two create_appointment requests have both ended with a success, each
\* with its own doctor
C14_Witness ==
    \E t1, t2 \in Tasks :
        /\ t1 # t2
        /\ HasSelected(t1) /\ loop.tasks[t1].status = 200
        /\ HasSelected(t2) /\ loop.tasks[t2].status = 200
        /\ Len(appointments_db) = 2

====
